---- MODULE Spec2Model ----
(***************************************************************************)
(* File monitor (file_monitor.py): the event store of FileMonitorHandler,  *)
(* the report generation and the report scheduler of FileMonitor.          *)
(*                                                                         *)
(* Time is the wall clock datetime.datetime.now(), counted in seconds      *)
(* since 00:00:00 of day 0.  The clock has a finite resolution, so two     *)
(* readings taken one after the other can be equal.                        *)
(***************************************************************************)
EXTENDS Integers, Sequences, FiniteSets, TLC

VARIABLES
    clock,            \* the wall clock read by datetime.datetime.now()
    jumped,           \* history: the wall clock has been set backward
    changes,          \* FileMonitorHandler.changes, in dict insertion order
    lock,             \* FileMonitorHandler.lock: "free" or the holding thread
    last_report_time, \* FileMonitor.last_report_time (the watermark)
    start_time,       \* history: the clock reading of FileMonitor.__init__
    nrecorded,        \* history: number of ChangeRecord objects created
    cb_pc,            \* event-callback thread: position in _record_change
    cb_args,          \* event-callback thread: arguments of _record_change
    cb_event,         \* history: the notification the handler was called with last
    rp_pc,            \* reporting thread: position in _generate_report
    rp_current_time,  \* _generate_report: current_time
    rp_i,             \* get_changes_since_last_report: bucket being scanned
    rp_all,           \* get_changes_since_last_report: all_changes
    rp_changes,       \* _generate_report: changes
    rp_snapshot,      \* history: the store when the read took the lock
    rp_since,         \* history: the watermark the read was called with
    output,           \* the body printed by the report generation in progress
    reported,         \* history: ids of the records printed in some report
    finished,         \* history: a report generation has finished
    mn_pc,            \* main thread: position in clear_old_changes
    mn_now,           \* clear_old_changes: the reading of now()
    mn_days,          \* clear_old_changes: days_to_keep
    mn_cutoff,        \* clear_old_changes: cutoff_date
    trim_clean,       \* history: <<date, days>> of the last trim, <<>> once a record is stored
    running,          \* FileMonitor.running
    sc_pc,            \* scheduler thread: position in _report_scheduler
    sc_now,           \* _report_scheduler: now
    sc_next_report,   \* _report_scheduler: next_report
    sc_wake,          \* scheduler thread: end of the current time.sleep
    sc_checked,       \* history: the loop has computed next_report at least once
    reports,          \* history: the reports the scheduler generated
    path_exists,      \* os.path.exists(WATCH_PATH)
    observer,         \* FileMonitor.observer: "none", "started" or "stopped"
    ml_pc,            \* main thread: position in start() and _main_loop
    ml_wake,          \* main thread: end of the current time.sleep
    st_calls,         \* history: the outcome of each call of start(), in call order
    absent_seen,      \* history: _main_loop found the root absent, and it still is
    os_name,          \* os.name: "nt" or "posix"
    pid_file,         \* the PID file: <<>> if absent, else <<n>>, n = 0 for unreadable text
    alive,            \* pids of the watcher processes that psutil.pid_exists finds
    mg_pc,            \* manager: position in start_monitor or stop_monitor
    mg_op,            \* history: the operation of the manager called last
    mg_pid,           \* start_monitor: process.pid; stop_monitor: pid
    mg_polls,         \* stop_monitor: passes of the for loop made so far
    mg_result,        \* history: the value the last finished operation returned
    mg_trace,         \* history: what the current stop_monitor has done, in order
    mg_stale,         \* history: the operation called last found a stale PID file
    mg_calls          \* history: number of manager operations called

vars == <<clock, jumped, changes, lock, last_report_time, start_time, nrecorded,
          cb_event, cb_pc, cb_args, rp_pc, rp_current_time, rp_i, rp_all, rp_changes,
          rp_snapshot, rp_since, output, reported, finished, mn_pc, mn_now,
          mn_days, mn_cutoff, trim_clean, running, sc_pc, sc_now,
          sc_next_report, sc_wake, sc_checked, reports, path_exists, observer,
          ml_pc, ml_wake, st_calls, absent_seen, os_name, pid_file, alive,
          mg_pc, mg_op, mg_pid, mg_polls, mg_result, mg_trace, mg_stale, mg_calls>>

storeVars == <<changes, lock, nrecorded, cb_event, cb_pc, cb_args, rp_pc, rp_current_time,
               rp_i, rp_all, rp_changes, rp_snapshot, rp_since, output,
               reported, finished, mn_pc, mn_now, mn_days, mn_cutoff, trim_clean>>

schedVars == <<running, sc_pc, sc_now, sc_next_report, sc_wake, sc_checked,
               reports>>

loopVars == <<path_exists, observer, ml_pc, ml_wake, st_calls, absent_seen>>

mgrVars == <<os_name, pid_file, alive, mg_pc, mg_op, mg_pid, mg_polls, mg_result,
             mg_trace, mg_stale, mg_calls>>

(***************************************************************************)
(* Bounds of the model.                                                    *)
(***************************************************************************)
MaxRecords == 3
MaxRetentionRecords == 2
MaxLockRecords == 2
MaxSchedDay == 1
MaxStartCalls == 3
MaxLifeRecords == 1
MaxManagerCalls == 3

(***************************************************************************)
(* Calendar arithmetic of datetime.                                        *)
(***************************************************************************)
SecondsPerHour == 60 * 60
SecondsPerDay == 24 * SecondsPerHour

\* datetime.date(): the calendar date of an instant, as a day number
DateOf(t) == t \div SecondsPerDay
\* datetime.hour
HourOf(t) == (t % SecondsPerDay) \div SecondsPerHour
\* datetime.minute
MinuteOf(t) == (t % SecondsPerHour) \div 60
\* datetime.datetime.combine(date, datetime.time(hour, 0))
Combine(date, hour) == date * SecondsPerDay + hour * SecondsPerHour
\* timestamp.strftime('%Y-%m-%d'): the date key of a record
DateKey(t) == DateOf(t)
\* datetime.datetime.strptime(date_str, '%Y-%m-%d'): midnight of that date
ParseDateKey(d) == Combine(d, 0)
\* timestamp.strftime('%m/%d %H:%M'): seconds are dropped
TimeStr(t) == <<DateOf(t), HourOf(t), MinuteOf(t)>>

None == "None"

(***************************************************************************)
(* The instants the environment sets the wall clock to.                    *)
(***************************************************************************)
ClockValues == {Combine(d, h) : d \in {0, 1}, h \in {9, 15}}
RenderClockValues == {Combine(0, 9), Combine(0, 15)}
LockClockValues == {Combine(0, 9), Combine(1, 9), Combine(2, 9)}
RetentionClockValues == {Combine(d, h) : d \in {0, 3, 5, 10}, h \in {0, 12}}

(***************************************************************************)
(* The arguments the on_created, on_modified, on_deleted and on_moved      *)
(* callbacks pass to _record_change.                                       *)
(***************************************************************************)
CreatedFile ==
    [event_type |-> "created", path |-> "/a/b.txt", is_directory |-> FALSE, old_path |-> None]
ModifiedFile ==
    [event_type |-> "modified", path |-> "/a/b.txt", is_directory |-> FALSE, old_path |-> None]
DeletedFolder ==
    [event_type |-> "deleted", path |-> "/a/c", is_directory |-> TRUE, old_path |-> None]
MovedFile ==
    [event_type |-> "moved", path |-> "/a/new.txt", is_directory |-> FALSE, old_path |-> "/a/old.txt"]
RecordInputs == {CreatedFile, ModifiedFile, DeletedFolder, MovedFile}

(***************************************************************************)
(* The notifications of the observer (watchdog FileSystemEvent) and the    *)
(* handlers on_created, on_modified, on_deleted, on_moved.                 *)
(***************************************************************************)
EventKinds == {"created", "modified", "deleted", "moved"}

\* a FileSystemEvent: only a moved event has a dest_path
Notification(kind, is_directory) ==
    [kind |-> kind,
     src_path |-> IF is_directory THEN "/a/c" ELSE "/a/b.txt",
     dest_path |-> IF kind # "moved" THEN None
                   ELSE IF is_directory THEN "/a/d" ELSE "/a/new.txt",
     is_directory |-> is_directory]

Notifications == {Notification(k, d) : k \in EventKinds, d \in BOOLEAN}

\* no notification has been delivered yet
NoNotification ==
    [kind |-> "none", src_path |-> None, dest_path |-> None, is_directory |-> FALSE]

\* every handler calling _record_change, on_modified too
RecordsAlways(event) == TRUE
\* on_modified calls _record_change only "if not event.is_directory"; the
\* other three handlers always call it
Records(event) == ~(event.kind = "modified" /\ event.is_directory)

\* the arguments each handler passes: on_moved passes event.dest_path as
\* path and event.src_path as old_path, the others event.src_path and the
\* default old_path = None
HandlerArgs(event) ==
    IF event.kind = "moved"
    THEN [event_type |-> "moved", path |-> event.dest_path,
          is_directory |-> event.is_directory, old_path |-> event.src_path]
    ELSE [event_type |-> event.kind, path |-> event.src_path,
          is_directory |-> event.is_directory, old_path |-> None]

\* ChangeRecord(timestamp=now(), ...); id stands for the identity of the object
ChangeRecord(id, now, args) ==
    [id |-> id, timestamp |-> now, event_type |-> args.event_type,
     path |-> args.path, is_directory |-> args.is_directory,
     old_path |-> args.old_path]

(***************************************************************************)
(* FileMonitorHandler: the store is a dict from date key to list of        *)
(* records; a dict iterates in the order in which its keys were inserted.  *)
(***************************************************************************)
HasBucket(store, key) == \E i \in 1..Len(store) : store[i].date_key = key

\* the record appended to the newest bucket, whatever its date
AppendChangeToLastBucket(store, change) ==
    IF store = <<>>
    THEN <<[date_key |-> DateKey(change.timestamp), recs |-> <<change>>]>>
    ELSE [store EXCEPT ![Len(store)].recs = Append(@, change)]

\* self.changes[date_key].append(change), on a defaultdict(list)
AppendChange(store, change) ==
    LET key == DateKey(change.timestamp) IN
    IF HasBucket(store, key)
    THEN [i \in 1..Len(store) |->
            IF store[i].date_key = key
            THEN [store[i] EXCEPT !.recs = Append(@, change)]
            ELSE store[i]]
    ELSE Append(store, [date_key |-> key, recs |-> <<change>>])

\* the test of line 77, without the strictness
IsAfterOrAt(timestamp, since) == timestamp >= since
\* if change.timestamp > last_report_time
IsAfter(timestamp, since) == timestamp > since

\* the inner loop of get_changes_since_last_report over one bucket
ChangesOfBucket(bucket, since) ==
    SelectSeq(bucket.recs, LAMBDA change : IsAfter(change.timestamp, since))

\* list.insert keeping the order of equal keys (sorted() is stable)
InsertByTimestamp(sorted, change) ==
    LET n == Cardinality({i \in 1..Len(sorted) :
                            sorted[i].timestamp <= change.timestamp})
    IN  SubSeq(sorted, 1, n) \o <<change>> \o SubSeq(sorted, n + 1, Len(sorted))

RECURSIVE SortedByTimestamp(_)
\* sorted(all_changes, key=lambda x: x.timestamp)
SortedByTimestamp(s) ==
    IF s = <<>> THEN <<>>
    ELSE InsertByTimestamp(SortedByTimestamp(SubSeq(s, 1, Len(s) - 1)), s[Len(s)])

\* date_obj = strptime(date_str); if date_obj < cutoff_date
IsBeforeCutoff(date_key, cutoff_date) == ParseDateKey(date_key) < cutoff_date

\* dates_to_remove, then del self.changes[date_str] for each of them
RemoveOldBuckets(store, cutoff_date) ==
    SelectSeq(store, LAMBDA bucket : ~IsBeforeCutoff(bucket.date_key, cutoff_date))

\* with self.lock, entered without waiting for the holder
AcquireNoWait(thread) == lock' = thread
\* with self.lock: entry
Acquire(thread) == lock = "free" /\ lock' = thread
\* with self.lock: exit
Release == lock' = "free"

(***************************************************************************)
(* _generate_report: the body of the printed report, lines 228-256.  The   *)
(* Japanese labels are written in Latin letters.                           *)
(***************************************************************************)
\* type_names
TypeNames == [created |-> "shinki sakusei", modified |-> "koushin",
              deleted |-> "sakujo", moved |-> "idou / rename"]

\* the groups in one fixed order, whatever the batch
ByTypeKeysCanonical(chs) ==
    SelectSeq(<<"created", "modified", "deleted", "moved">>,
              LAMBDA k : \E i \in 1..Len(chs) : chs[i].event_type = k)

RECURSIVE ByTypeKeys(_)
\* the keys of by_type: a defaultdict keeps the order of first insertion
ByTypeKeys(chs) ==
    IF chs = <<>> THEN <<>>
    ELSE LET front == ByTypeKeys(SubSeq(chs, 1, Len(chs) - 1))
             k == chs[Len(chs)].event_type
         IN  IF \E i \in 1..Len(front) : front[i] = k THEN front
             ELSE Append(front, k)

\* by_type[event_type]
ByType(chs, k) == SelectSeq(chs, LAMBDA change : change.event_type = k)

\* one printed line of a record, lines 250-256
ChangeLine(change) ==
    [line |-> "change",
     id |-> change.id,
     time_str |-> TimeStr(change.timestamp),
     type_str |-> IF change.is_directory THEN "folder" ELSE "file",
     text |-> IF change.event_type = "moved"
              THEN <<change.old_path, "->", change.path>>
              ELSE <<change.path>>]

\* the header of one group, line 248
GroupHeader(k, type_changes) ==
    [line |-> "group", event_type |-> k, name |-> TypeNames[k],
     count |-> Len(type_changes)]

RECURSIVE GroupLines(_, _)
\* for event_type, type_changes in by_type.items(): ...
GroupLines(keys, chs) ==
    IF keys = <<>> THEN <<>>
    ELSE LET type_changes == ByType(chs, keys[1])
         IN  <<GroupHeader(keys[1], type_changes)>>
             \o [i \in 1..Len(type_changes) |-> ChangeLine(type_changes[i])]
             \o GroupLines(Tail(keys), chs)

\* if not changes: print("henka nashi") else: the total and the groups
ReportBody(chs) ==
    IF chs = <<>> THEN << [line |-> "no changes"] >>
    ELSE << [line |-> "total", count |-> Len(chs)] >>
         \o GroupLines(ByTypeKeys(chs), chs)

\* the ids of the records of a list
IdsOf(chs) == {chs[i].id : i \in 1..Len(chs)}

(***************************************************************************)
(* The wall clock.                                                         *)
(***************************************************************************)
\* the clock advances to a later instant
Tick(values) ==
    /\ \E t \in values : t > clock /\ clock' = t
    /\ UNCHANGED <<jumped, last_report_time, start_time, storeVars, schedVars, loopVars,
                   mgrVars>>

\* the clock is set backward (the limitation noted in the design notes)
ClockBack(values) ==
    /\ \E t \in values : t < clock /\ clock' = t
    /\ jumped' = TRUE
    /\ UNCHANGED <<last_report_time, start_time, storeVars, schedVars, loopVars,
                   mgrVars>>

(***************************************************************************)
(* Event-callback thread: _record_change.                                  *)
(***************************************************************************)
RecordEnter(args) ==
    /\ cb_pc = "idle"
    /\ nrecorded < MaxRecords
    /\ Acquire("callback")
    /\ cb_pc' = "locked"
    /\ cb_args' = args
    /\ UNCHANGED <<clock, jumped, changes, last_report_time, start_time,
                   cb_event, nrecorded,
                   rp_pc, rp_current_time, rp_i, rp_all, rp_changes, rp_snapshot,
                   rp_since, output, reported, finished, mn_pc, mn_now, mn_days,
                   mn_cutoff, trim_clean, schedVars, loopVars, mgrVars>>

\* the observer calls the handler of the event's kind, which calls
\* _record_change and takes the lock, or returns at once
Notify(event) ==
    /\ cb_pc = "idle"
    /\ nrecorded < MaxRecords
    /\ cb_event' = event
    /\ IF Records(event)
       THEN /\ Acquire("callback")
            /\ cb_pc' = "locked"
            /\ cb_args' = HandlerArgs(event)
       ELSE UNCHANGED <<lock, cb_pc, cb_args>>
    /\ UNCHANGED <<clock, jumped, changes, last_report_time, start_time, nrecorded,
                   rp_pc, rp_current_time, rp_i, rp_all, rp_changes, rp_snapshot,
                   rp_since, output, reported, finished, mn_pc, mn_now, mn_days,
                   mn_cutoff, trim_clean, schedVars, loopVars, mgrVars>>

RecordAppend ==
    /\ cb_pc = "locked"
    /\ changes' = AppendChange(changes, ChangeRecord(nrecorded + 1, clock, cb_args))
    /\ nrecorded' = nrecorded + 1
    /\ trim_clean' = <<>>
    /\ Release
    /\ cb_pc' = "idle"
    /\ cb_args' = None
    /\ UNCHANGED <<clock, jumped, last_report_time, start_time, cb_event,
                   rp_pc, rp_current_time, rp_i, rp_all, rp_changes, rp_snapshot,
                   rp_since, output, reported, finished, mn_pc, mn_now, mn_days,
                   mn_cutoff, schedVars, loopVars, mgrVars>>

(***************************************************************************)
(* _generate_report, with get_changes_since_last_report inside it.         *)
(***************************************************************************)
GenerateReportBegin ==
    /\ rp_pc \in {"idle", "raised"}
    /\ rp_current_time' = clock
    /\ rp_pc' = "read"
    /\ UNCHANGED <<clock, jumped, changes, lock, last_report_time, start_time,
                   cb_event,
                   nrecorded, cb_pc, cb_args, rp_i, rp_all, rp_changes,
                   rp_snapshot, rp_since,
                   output, reported, finished, mn_pc, mn_now, mn_days, mn_cutoff,
                   trim_clean, schedVars, loopVars, mgrVars>>

ReadAcquire ==
    /\ rp_pc = "read"
    /\ Acquire("report")
    /\ rp_since' = last_report_time
    /\ rp_snapshot' = changes
    /\ rp_all' = <<>>
    /\ rp_i' = 1
    /\ rp_pc' = "scan"
    /\ UNCHANGED <<clock, jumped, changes, last_report_time, start_time,
                   cb_event,
                   nrecorded, cb_pc, cb_args, rp_current_time, rp_changes,
                   output, reported, finished, mn_pc, mn_now, mn_days, mn_cutoff,
                   trim_clean, schedVars, loopVars, mgrVars>>

ReadScan ==
    /\ rp_pc = "scan"
    /\ rp_i <= Len(changes)
    /\ rp_all' = rp_all \o ChangesOfBucket(changes[rp_i], rp_since)
    /\ rp_i' = rp_i + 1
    /\ UNCHANGED <<clock, jumped, changes, lock, last_report_time, start_time,
                   cb_event,
                   nrecorded, cb_pc, cb_args, rp_pc, rp_current_time, rp_changes,
                   rp_snapshot, rp_since, output, reported, finished, mn_pc,
                   mn_now, mn_days, mn_cutoff, trim_clean, schedVars, loopVars,
                   mgrVars>>

ReadReturn ==
    /\ rp_pc = "scan"
    /\ rp_i > Len(changes)
    /\ rp_changes' = SortedByTimestamp(rp_all)
    /\ Release
    /\ rp_pc' = "print"
    /\ UNCHANGED <<clock, jumped, changes, last_report_time, start_time,
                   cb_event,
                   nrecorded, cb_pc, cb_args, rp_current_time, rp_i, rp_all,
                   rp_snapshot, rp_since, output, reported, finished, mn_pc,
                   mn_now, mn_days, mn_cutoff, trim_clean, schedVars, loopVars,
                   mgrVars>>

ReportPrint ==
    /\ rp_pc = "print"
    /\ output' = ReportBody(rp_changes)
    /\ rp_pc' = "update"
    /\ UNCHANGED <<clock, jumped, changes, lock, last_report_time, start_time,
                   cb_event,
                   nrecorded, cb_pc, cb_args, rp_current_time, rp_i, rp_all,
                   rp_changes, rp_snapshot, rp_since, reported, finished, mn_pc,
                   mn_now, mn_days, mn_cutoff, trim_clean, schedVars, loopVars,
                   mgrVars>>

\* the watermark set to the timestamp of the latest record printed
NewWatermarkLatestEvent(current_time, chs) ==
    IF chs = <<>> THEN current_time ELSE chs[Len(chs)].timestamp
\* self.last_report_time = current_time
NewWatermark(current_time, chs) == current_time

\* a print of _generate_report raises: the call ends before line 261
ReportRaise ==
    /\ rp_pc = "print"
    /\ rp_current_time' = 0
    /\ rp_i' = 0
    /\ rp_all' = <<>>
    /\ rp_changes' = <<>>
    /\ rp_snapshot' = <<>>
    /\ rp_since' = 0
    /\ rp_pc' = "raised"
    /\ UNCHANGED <<clock, jumped, changes, lock, last_report_time, start_time,
                   cb_event,
                   nrecorded, cb_pc, cb_args, output, reported, finished, mn_pc,
                   mn_now, mn_days, mn_cutoff, trim_clean, schedVars, loopVars,
                   mgrVars>>

\* self.last_report_time = current_time, and the return
ReportUpdate ==
    /\ rp_pc = "update"
    /\ last_report_time' = NewWatermark(rp_current_time, rp_changes)
    /\ reported' = reported \cup IdsOf(rp_changes)
    /\ finished' = TRUE
    /\ rp_current_time' = 0
    /\ rp_i' = 0
    /\ rp_all' = <<>>
    /\ rp_changes' = <<>>
    /\ rp_snapshot' = <<>>
    /\ rp_since' = 0
    /\ output' = <<>>
    /\ rp_pc' = "idle"
    /\ UNCHANGED <<clock, jumped, changes, lock, start_time, cb_event, nrecorded, cb_pc,
                   cb_args, mn_pc, mn_now, mn_days, mn_cutoff, trim_clean,
                   schedVars, loopVars, mgrVars>>

(***************************************************************************)
(* Main thread: clear_old_changes.                                         *)
(***************************************************************************)
ClearCall(days_to_keep) ==
    /\ mn_pc = "idle"
    /\ mn_now' = clock
    /\ mn_days' = days_to_keep
    /\ mn_cutoff' = clock - days_to_keep * SecondsPerDay
    /\ mn_pc' = "wait"
    /\ UNCHANGED <<clock, jumped, changes, lock, last_report_time, start_time,
                   cb_event,
                   nrecorded, cb_pc, cb_args, rp_pc, rp_current_time, rp_i, rp_all,
                   rp_changes, rp_snapshot, rp_since, output, reported, finished,
                   trim_clean, schedVars, loopVars, mgrVars>>

ClearAcquire ==
    /\ mn_pc = "wait"
    /\ Acquire("main")
    /\ mn_pc' = "locked"
    /\ UNCHANGED <<clock, jumped, changes, last_report_time, start_time,
                   cb_event,
                   nrecorded, cb_pc, cb_args, rp_pc, rp_current_time, rp_i, rp_all,
                   rp_changes, rp_snapshot, rp_since, output, reported, finished,
                   mn_now, mn_days, mn_cutoff, trim_clean, schedVars, loopVars,
                   mgrVars>>

ClearRemove ==
    /\ mn_pc = "locked"
    /\ changes' = RemoveOldBuckets(changes, mn_cutoff)
    /\ trim_clean' = <<DateOf(mn_now), mn_days>>
    /\ Release
    /\ mn_now' = 0
    /\ mn_days' = 0
    /\ mn_cutoff' = 0
    /\ mn_pc' = "idle"
    /\ UNCHANGED <<clock, jumped, last_report_time, start_time, cb_event,
                   nrecorded, cb_pc, cb_args, rp_pc, rp_current_time, rp_i, rp_all,
                   rp_changes, rp_snapshot, rp_since, output, reported, finished,
                   schedVars, loopVars, mgrVars>>

(***************************************************************************)
(* The store under concurrent recording, reporting and trimming.           *)
(***************************************************************************)
DefaultDaysToKeep == 7

InitStore ==
    /\ jumped = FALSE
    /\ changes = <<>>
    /\ lock = "free"
    /\ nrecorded = 0
    /\ cb_pc = "idle"
    /\ cb_args = None
    /\ cb_event = NoNotification
    /\ rp_pc = "idle"
    /\ rp_current_time = 0
    /\ rp_i = 0
    /\ rp_all = <<>>
    /\ rp_changes = <<>>
    /\ rp_snapshot = <<>>
    /\ rp_since = 0
    /\ output = <<>>
    /\ reported = {}
    /\ finished = FALSE
    /\ mn_pc = "idle"
    /\ mn_now = 0
    /\ mn_days = 0
    /\ mn_cutoff = 0
    /\ trim_clean = <<>>

InitSched ==
    /\ running = FALSE
    /\ sc_pc = "idle"
    /\ sc_now = 0
    /\ sc_next_report = 0
    /\ sc_wake = 0
    /\ sc_checked = FALSE
    /\ reports = <<>>

InitLoop ==
    /\ path_exists = TRUE
    /\ observer = "none"
    /\ ml_pc = "init"
    /\ ml_wake = 0
    /\ st_calls = <<>>
    /\ absent_seen = FALSE

\* no PID file, no watcher process, no operation of the manager in progress
InitManagerState ==
    /\ pid_file = <<>>
    /\ alive = {}
    /\ mg_pc = "idle"
    /\ mg_op = "none"
    /\ mg_pid = 0
    /\ mg_polls = 0
    /\ mg_result = "None"
    /\ mg_trace = <<>>
    /\ mg_stale = FALSE
    /\ mg_calls = 0

InitManager ==
    /\ os_name = "posix"
    /\ InitManagerState

Init ==
    /\ clock = Combine(0, 9)
    /\ last_report_time = clock
    /\ start_time = clock
    /\ InitStore
    /\ InitSched
    /\ InitLoop
    /\ InitManager

(***************************************************************************)
(* Spec: events are recorded while reports are generated, on a clock that  *)
(* may stand still between two readings and may be set backward.           *)
(***************************************************************************)
Next ==
    \/ Tick(ClockValues)
    \/ ClockBack(ClockValues)
    \/ RecordEnter(CreatedFile)
    \/ RecordAppend
    \/ GenerateReportBegin
    \/ ReadAcquire
    \/ ReadScan
    \/ ReadReturn
    \/ ReportPrint
    \/ ReportUpdate

Spec == Init /\ [][Next]_vars

(***************************************************************************)
(* RenderSpec: events of every kind are recorded and reported.             *)
(***************************************************************************)
RenderNext ==
    \/ Tick(RenderClockValues)
    \/ \E args \in RecordInputs : RecordEnter(args)
    \/ RecordAppend
    \/ GenerateReportBegin
    \/ ReadAcquire
    \/ ReadScan
    \/ ReadReturn
    \/ ReportPrint
    \/ ReportUpdate

RenderSpec == Init /\ [][RenderNext]_vars

(***************************************************************************)
(* ClassifySpec: the observer delivers notifications of every kind, for    *)
(* files and for directories.                                              *)
(***************************************************************************)
ClassifyNext ==
    \/ Tick(RenderClockValues)
    \/ \E event \in Notifications : Notify(event)
    \/ RecordAppend

ClassifySpec == Init /\ [][ClassifyNext]_vars

(***************************************************************************)
(* RetentionSpec: the main loop trims the store with the default           *)
(* days_to_keep, over several days.                                        *)
(***************************************************************************)
RetentionInit ==
    /\ clock \in {Combine(0, 0), Combine(0, 12)}
    /\ last_report_time = clock
    /\ start_time = clock
    /\ InitStore
    /\ InitSched
    /\ InitLoop
    /\ InitManager

RetentionNext ==
    \/ Tick(RetentionClockValues)
    \/ (nrecorded < MaxRetentionRecords /\ RecordEnter(CreatedFile))
    \/ RecordAppend
    \/ ClearCall(DefaultDaysToKeep)
    \/ ClearAcquire
    \/ ClearRemove

RetentionSpec == RetentionInit /\ [][RetentionNext]_vars

(***************************************************************************)
(* LockSpec: the three threads contend for the lock of the store.          *)
(***************************************************************************)
LockNext ==
    \/ Tick(LockClockValues)
    \/ ClockBack(LockClockValues)
    \/ (nrecorded < MaxLockRecords /\ RecordEnter(CreatedFile))
    \/ RecordAppend
    \/ GenerateReportBegin
    \/ ReadAcquire
    \/ ReadScan
    \/ ReadReturn
    \/ ReportPrint
    \/ ReportUpdate
    \/ ClearCall(1)
    \/ ClearAcquire
    \/ ClearRemove

LockSpec == Init /\ [][LockNext]_vars

(***************************************************************************)
(* Properties of the store and of the report.                              *)
(***************************************************************************)
\* every record of a store, whatever its bucket
StoredRecords(store) ==
    UNION {{store[i].recs[j] : j \in 1..Len(store[i].recs)} : i \in 1..Len(store)}

ElementsOf(seq) == {seq[i] : i \in 1..Len(seq)}

\* C1: once get_changes_since_last_report(t) has returned, its result holds
\* exactly the records of the store whose timestamp is strictly greater than
\* t, each once, in non-decreasing timestamp order, whatever the buckets they
\* sit in and the order in which the buckets were created.
ReadSinceExactAndSorted ==
    rp_pc \in {"print", "update"} =>
        /\ ElementsOf(rp_changes) =
               {r \in StoredRecords(rp_snapshot) : r.timestamp > rp_since}
        /\ Cardinality(ElementsOf(rp_changes)) = Len(rp_changes)
        /\ \A i, j \in 1..Len(rp_changes) :
               i < j => rp_changes[i].timestamp <= rp_changes[j].timestamp

\* C1 witness: a read over two buckets created against the order of their
\* dates, with a record stamped exactly t left out and the sort moving a record.
ReadSinceWitness ==
    /\ rp_pc = "print"
    /\ Len(rp_snapshot) = 2
    /\ rp_snapshot[1].date_key > rp_snapshot[2].date_key
    /\ \E r \in StoredRecords(rp_snapshot) : r.timestamp = rp_since
    /\ Len(rp_changes) = 2
    /\ rp_changes # rp_all

\* C3: after a finished report generation, every record of the store that was
\* stamped after start-up and not after the new last_report_time has been
\* printed in a report (the clock never having been set backward).
NoEventLost ==
    (rp_pc = "idle" /\ finished /\ ~jumped) =>
        \A r \in StoredRecords(changes) :
            (r.timestamp > start_time /\ r.timestamp <= last_report_time)
                => r.id \in reported

RECURSIVE SumOfCounts(_)
SumOfCounts(lines) ==
    IF lines = <<>> THEN 0 ELSE lines[1].count + SumOfCounts(Tail(lines))

\* the position of the first record of kind k in a window that holds one
FirstOfKind(window, k) ==
    CHOOSE i \in 1..Len(window) :
        /\ window[i].event_type = k
        /\ \A j \in 1..(i - 1) : window[j].event_type # k

\* the group header that precedes line i of a report body
HeaderBefore(body, i) ==
    LET h == CHOOSE h \in 1..(i - 1) :
                 /\ body[h].line = "group"
                 /\ \A m \in (h + 1)..(i - 1) : body[m].line # "group"
    IN  body[h]

\* C10: the body printed for the window W = rp_changes is the single line
\* "no changes" when W is empty; otherwise the total |W|, then one group per
\* kind present in W with that kind's count, the groups in the order in which
\* their kinds first occur in W, one line per record under the header of its
\* kind, a moved record printed as old_path -> path.
ReportBodyFollowsWindow ==
    rp_pc = "update" =>
        IF rp_changes = <<>>
        THEN output = << [line |-> "no changes"] >>
        ELSE LET headers == SelectSeq(output, LAMBDA l : l.line = "group")
                 lines == {i \in 1..Len(output) : output[i].line = "change"}
             IN  /\ output[1] = [line |-> "total", count |-> Len(rp_changes)]
                 /\ Len(output) = 1 + Len(headers) + Cardinality(lines)
                 /\ {headers[g].event_type : g \in 1..Len(headers)} =
                        {r.event_type : r \in ElementsOf(rp_changes)}
                 /\ \A g \in 1..Len(headers) :
                        /\ headers[g].count =
                               Cardinality({r \in ElementsOf(rp_changes) :
                                              r.event_type = headers[g].event_type})
                        /\ \A f \in 1..(g - 1) :
                               FirstOfKind(rp_changes, headers[f].event_type)
                                   < FirstOfKind(rp_changes, headers[g].event_type)
                 /\ SumOfCounts(headers) = Len(rp_changes)
                 /\ Cardinality(lines) = Len(rp_changes)
                 /\ \A r \in ElementsOf(rp_changes) :
                        \E i \in lines :
                            /\ output[i].id = r.id
                            /\ HeaderBefore(output, i).event_type = r.event_type
                            /\ output[i].text =
                                   IF r.event_type = "moved"
                                   THEN <<r.old_path, "->", r.path>>
                                   ELSE <<r.path>>

\* C10 witness: a batch of one moved, one created and one deleted record,
\* first seen in that order.
ReportBodyWitness ==
    /\ rp_pc = "update"
    /\ Len(rp_changes) = 3
    /\ rp_changes[1].event_type = "moved"
    /\ rp_changes[2].event_type = "created"
    /\ rp_changes[3].event_type = "deleted"
    /\ Len(output) = 7

\* C7: clear_old_changes(n) removes the buckets dated strictly before
\* today - n days and keeps every other bucket, at any time of day.
ClearKeepsFromCutoffDate ==
    [][(mn_pc = "locked" /\ mn_pc' = "idle") =>
          changes' = SelectSeq(changes,
                       LAMBDA bucket : bucket.date_key >= DateOf(mn_now) - mn_days)]_vars

\* C8: a second clear_old_changes(7) on the same date, with no record stored
\* since the first one, leaves the store as the first one left it.
ClearIdempotent ==
    [][(mn_pc = "locked" /\ mn_pc' = "idle"
          /\ trim_clean = <<DateOf(mn_now), mn_days>>) => changes' = changes]_vars

\* the threads inside the critical section of the store
InCriticalSection ==
    {t \in {"callback", "report", "main"} :
        \/ t = "callback" /\ cb_pc = "locked"
        \/ t = "report" /\ rp_pc = "scan"
        \/ t = "main" /\ mn_pc = "locked"}

\* C9: at most one of _record_change, get_changes_since_last_report and
\* clear_old_changes is inside its critical section; the store does not
\* change while a read scans it, and the read returns the filtered content
\* of the store as it was when the read took the lock.
StoreOperationsAtomic ==
    /\ Cardinality(InCriticalSection) <= 1
    /\ rp_pc = "scan" => changes = rp_snapshot
    /\ rp_pc = "print" =>
           IdsOf(rp_changes) =
               {r.id : r \in {x \in StoredRecords(rp_snapshot) : x.timestamp > rp_since}}

\* C9 witness: a read is half-way through the buckets while the main thread
\* waits for the lock to remove a bucket and an event has been recorded.
StoreOperationsWitness ==
    /\ rp_pc = "scan"
    /\ rp_i = 2
    /\ Len(changes) = 2
    /\ mn_pc = "wait"
    /\ \E i \in 1..Len(changes) : IsBeforeCutoff(changes[i].date_key, mn_cutoff)
    /\ cb_pc = "idle"
    /\ lock = "report"

(***************************************************************************)
(* FileMonitor._report_scheduler and _get_next_report_time.                *)
(***************************************************************************)
REPORT_HOURS == <<6, 10, 14, 17>>
MaxCheckSleep == 60
DuplicateGuardSleep == 61

Min(a, b) == IF a < b THEN a ELSE b

\* the search of lines 211-213 with hour >= current_hour
GetNextReportTimeNotStrict(current_time) ==
    LET current_date == DateOf(current_time)
        current_hour == HourOf(current_time)
        remaining == {i \in 1..Len(REPORT_HOURS) : REPORT_HOURS[i] >= current_hour}
    IN  IF remaining # {}
        THEN Combine(current_date,
                     REPORT_HOURS[CHOOSE i \in remaining : \A j \in remaining : i <= j])
        ELSE Combine(current_date + 1, REPORT_HOURS[1])

\* _get_next_report_time: the first hour of REPORT_HOURS greater than the
\* current hour, today; else the first hour of REPORT_HOURS, tomorrow
GetNextReportTime(current_time) ==
    LET current_date == DateOf(current_time)
        current_hour == HourOf(current_time)
        remaining == {i \in 1..Len(REPORT_HOURS) : REPORT_HOURS[i] > current_hour}
    IN  IF remaining # {}
        THEN Combine(current_date,
                     REPORT_HOURS[CHOOSE i \in remaining : \A j \in remaining : i <= j])
        ELSE Combine(current_date + 1, REPORT_HOURS[1])

RECURSIVE AllChangesSince(_, _)
\* get_changes_since_last_report, run without interruption
AllChangesSince(store, since) ==
    IF store = <<>> THEN <<>>
    ELSE ChangesOfBucket(store[1], since) \o AllChangesSince(Tail(store), since)

\* the instants the clock takes while the scheduler runs
SchedTimesOfDay ==
    {h * SecondsPerHour + s : h \in {5, 6, 10, 14, 17, 23}, s \in {0, 61, 3599}}
SchedClockValues ==
    {Combine(d, 0) + s : d \in 0..MaxSchedDay, s \in SchedTimesOfDay}

\* the two tests that open start(), lines 114-121, either one alone
StartRefusedPathOnly == ~path_exists
\* if not os.path.exists(WATCH_PATH): return False; if self.running: return False
StartRefused == ~path_exists \/ running

\* start(), up to the call of _main_loop: a refused call returns False; else
\* the observer and the scheduler thread are started, running is set, and
\* the call stays in _main_loop.  A monitor is started once; a later call
\* finds it running or is not made.
StartMonitor ==
    /\ Len(st_calls) < MaxStartCalls
    /\ ml_pc = "init" \/ running
    /\ IF StartRefused
       THEN /\ st_calls' = Append(st_calls, "False")
            /\ UNCHANGED <<running, sc_pc, observer, ml_pc>>
       ELSE /\ observer' = "started"
            /\ running' = TRUE
            /\ sc_pc' = "loop"
            /\ ml_pc' = "check"
            /\ st_calls' = Append(st_calls, "started")
    /\ UNCHANGED <<clock, jumped, last_report_time, start_time, storeVars,
                   sc_now, sc_next_report, sc_wake, sc_checked, reports,
                   path_exists, ml_wake, absent_seen, mgrVars>>

\* stop(): self.running = False, then observer.stop() and observer.join()
StopMonitor ==
    /\ running
    /\ running' = FALSE
    /\ observer' = "stopped"
    /\ UNCHANGED <<clock, jumped, last_report_time, start_time, storeVars,
                   sc_pc, sc_now, sc_next_report, sc_wake, sc_checked, reports,
                   path_exists, ml_pc, ml_wake, st_calls, absent_seen, mgrVars>>

\* one pass of the while loop of _report_scheduler, up to its time.sleep;
\* _generate_report runs here without interruption
SchedLoop ==
    /\ sc_pc = "loop"
    /\ IF ~running
       THEN /\ sc_pc' = "done"
            /\ UNCHANGED <<last_report_time, output, sc_now, sc_next_report,
                           sc_wake, sc_checked, reports>>
       ELSE LET now == clock
                next_report == GetNextReportTime(now)
                wait_seconds == next_report - now
            IN  /\ sc_now' = now
                /\ sc_next_report' = next_report
                /\ sc_checked' = TRUE
                /\ sc_pc' = "sleep"
                /\ IF wait_seconds > 0
                   THEN /\ sc_wake' = now + Min(wait_seconds, MaxCheckSleep)
                        /\ UNCHANGED <<last_report_time, output, reports>>
                   ELSE /\ output' = ReportBody(SortedByTimestamp(
                                         AllChangesSince(changes, last_report_time)))
                        /\ last_report_time' = clock
                        /\ reports' = Append(reports,
                                             [trigger |-> next_report, at |-> clock])
                        /\ sc_wake' = clock + DuplicateGuardSleep
    /\ UNCHANGED <<clock, jumped, start_time, cb_event, changes, lock, nrecorded, cb_pc,
                   cb_args, rp_pc, rp_current_time, rp_i, rp_all, rp_changes,
                   rp_snapshot, rp_since, reported, finished, mn_pc, mn_now,
                   mn_days, mn_cutoff, trim_clean, running, loopVars, mgrVars>>

\* time.sleep returns once the clock has reached the end of the sleep
SchedWake ==
    /\ sc_pc = "sleep"
    /\ clock >= sc_wake
    /\ sc_pc' = "loop"
    /\ UNCHANGED <<clock, jumped, last_report_time, start_time, storeVars,
                   running, sc_now, sc_next_report, sc_wake, sc_checked, reports,
                   loopVars, mgrVars>>

SchedInit ==
    /\ clock \in {t \in SchedClockValues : DateOf(t) = 0}
    /\ last_report_time = clock
    /\ start_time = clock
    /\ InitStore
    /\ InitSched
    /\ InitLoop
    /\ InitManager

(***************************************************************************)
(* SchedSpec: the scheduler thread on a clock that never goes backward.    *)
(***************************************************************************)
SchedNext ==
    \/ Tick(SchedClockValues)
    \/ StartMonitor
    \/ StopMonitor
    \/ SchedLoop
    \/ SchedWake

SchedSpec == SchedInit /\ [][SchedNext]_vars

(***************************************************************************)
(* The main thread in _main_loop, the observer and the monitored root.     *)
(***************************************************************************)
ReconnectSleep == 30
HousekeepingSleep == 300

\* the monitored root vanishes (a network drive is disconnected)
PathLost ==
    /\ path_exists
    /\ path_exists' = FALSE
    /\ UNCHANGED <<clock, jumped, last_report_time, start_time, storeVars,
                   schedVars, observer, ml_pc, ml_wake, st_calls, absent_seen,
                   mgrVars>>

\* the monitored root is there again
PathRestored ==
    /\ ~path_exists
    /\ path_exists' = TRUE
    /\ absent_seen' = FALSE
    /\ UNCHANGED <<clock, jumped, last_report_time, start_time, storeVars,
                   schedVars, observer, ml_pc, ml_wake, st_calls, mgrVars>>

\* the started observer sees a change under the existing root and queues
\* the event for its handler
EventQueued(args) ==
    /\ observer = "started"
    /\ path_exists
    /\ cb_pc = "idle"
    /\ nrecorded < MaxLifeRecords
    /\ cb_pc' = "queued"
    /\ cb_args' = args
    /\ UNCHANGED <<clock, jumped, changes, lock, last_report_time, start_time,
                   cb_event,
                   nrecorded, rp_pc, rp_current_time, rp_i, rp_all, rp_changes,
                   rp_snapshot, rp_since, output, reported, finished, mn_pc,
                   mn_now, mn_days, mn_cutoff, trim_clean, schedVars, loopVars,
                   mgrVars>>

\* the observer calls the handler with the queued event: on_created and the
\* others call _record_change, which tests nothing before taking the lock
DispatchEnter ==
    /\ observer = "started"
    /\ cb_pc = "queued"
    /\ Acquire("callback")
    /\ cb_pc' = "locked"
    /\ UNCHANGED <<clock, jumped, changes, last_report_time, start_time,
                   cb_event, nrecorded,
                   cb_args, rp_pc, rp_current_time, rp_i, rp_all, rp_changes,
                   rp_snapshot, rp_since, output, reported, finished, mn_pc,
                   mn_now, mn_days, mn_cutoff, trim_clean, schedVars, loopVars,
                   mgrVars>>

\* start() returns True once _main_loop has returned
StartReturns(calls) ==
    [i \in DOMAIN calls |-> IF calls[i] = "started" THEN "True" ELSE calls[i]]

\* while self.running: if not os.path.exists(WATCH_PATH): ...
MainCheck ==
    /\ ml_pc = "check"
    /\ IF ~running
       THEN /\ ml_pc' = "returned"
            /\ st_calls' = StartReturns(st_calls)
            /\ UNCHANGED absent_seen
       ELSE IF ~path_exists
            THEN /\ ml_pc' = "reconnect"
                 /\ absent_seen' = TRUE
                 /\ UNCHANGED st_calls
            ELSE /\ ml_pc' = "housekeeping"
                 /\ UNCHANGED <<st_calls, absent_seen>>
    /\ UNCHANGED <<clock, jumped, last_report_time, start_time, storeVars,
                   schedVars, path_exists, observer, ml_wake, mgrVars>>

\* while self.running and not os.path.exists(WATCH_PATH): time.sleep(30)
MainReconnect ==
    /\ ml_pc = "reconnect"
    /\ IF running /\ ~path_exists
       THEN /\ ml_wake' = clock + ReconnectSleep
            /\ ml_pc' = "reconnect_sleep"
       ELSE /\ ml_pc' = "housekeeping"
            /\ UNCHANGED ml_wake
    /\ UNCHANGED <<clock, jumped, last_report_time, start_time, storeVars,
                   schedVars, path_exists, observer, st_calls, absent_seen,
                   mgrVars>>

\* self.handler.clear_old_changes(), then time.sleep(300)
MainHousekeeping ==
    /\ ml_pc = "housekeeping"
    /\ lock = "free"
    /\ changes' = RemoveOldBuckets(changes, clock - DefaultDaysToKeep * SecondsPerDay)
    /\ trim_clean' = <<DateOf(clock), DefaultDaysToKeep>>
    /\ ml_wake' = clock + HousekeepingSleep
    /\ ml_pc' = "sleep"
    /\ UNCHANGED <<clock, jumped, lock, last_report_time, start_time,
                   cb_event, nrecorded,
                   cb_pc, cb_args, rp_pc, rp_current_time, rp_i, rp_all,
                   rp_changes, rp_snapshot, rp_since, output, reported, finished,
                   mn_pc, mn_now, mn_days, mn_cutoff, schedVars, path_exists,
                   observer, st_calls, absent_seen, mgrVars>>

\* a time.sleep of the main thread returns once the clock has reached its end
MainWake ==
    /\ ml_pc \in {"reconnect_sleep", "sleep"}
    /\ clock >= ml_wake
    /\ ml_pc' = IF ml_pc = "sleep" THEN "check" ELSE "reconnect"
    /\ UNCHANGED <<clock, jumped, last_report_time, start_time, storeVars,
                   schedVars, path_exists, observer, ml_wake, st_calls,
                   absent_seen, mgrVars>>

\* _main_loop raises: except Exception in start() prints, finally calls
\* stop(), and start() returns True
MainRaise ==
    /\ ml_pc \in {"check", "reconnect", "housekeeping"}
    /\ running' = FALSE
    /\ observer' = "stopped"
    /\ ml_pc' = "returned"
    /\ st_calls' = StartReturns(st_calls)
    /\ UNCHANGED <<clock, jumped, last_report_time, start_time, storeVars,
                   sc_pc, sc_now, sc_next_report, sc_wake, sc_checked, reports,
                   path_exists, ml_wake, absent_seen, mgrVars>>

\* the body of the loop of _report_scheduler raises: nothing in the thread
\* catches it and the thread ends
SchedRaise ==
    /\ sc_pc = "loop"
    /\ running
    /\ sc_pc' = "dead"
    /\ UNCHANGED <<clock, jumped, last_report_time, start_time, storeVars,
                   running, sc_now, sc_next_report, sc_wake, sc_checked, reports,
                   loopVars, mgrVars>>

\* the instants the clock takes during the life of one monitor
LifeClockValues == {Combine(0, 9) + s : s \in {0, 30, 60, 300, 360}}

(***************************************************************************)
(* LifeSpec: one monitor from start() to stop(), with its three threads,   *)
(* while the monitored root comes and goes.                                *)
(***************************************************************************)
LifeNext ==
    \/ Tick(LifeClockValues)
    \/ PathLost
    \/ PathRestored
    \/ StartMonitor
    \/ StopMonitor
    \/ EventQueued(CreatedFile)
    \/ DispatchEnter
    \/ RecordAppend
    \/ MainCheck
    \/ MainReconnect
    \/ MainHousekeeping
    \/ MainWake
    \/ MainRaise
    \/ SchedLoop
    \/ SchedWake
    \/ SchedRaise

LifeSpec == Init /\ [][LifeNext]_vars

\* the instants the clock takes while the watermark is observed
WatermarkClockValues == {Combine(0, 9) + s : s \in {0, 60, 300}}

(***************************************************************************)
(* WatermarkSpec: a started monitor records events, trims in its main      *)
(* loop and waits in its scheduler while reports are generated; a report   *)
(* generation may raise, and the clock may be set backward.                *)
(***************************************************************************)
WatermarkNext ==
    \/ Tick(WatermarkClockValues)
    \/ ClockBack(WatermarkClockValues)
    \/ (ml_pc = "init" /\ StartMonitor)
    \/ EventQueued(CreatedFile)
    \/ DispatchEnter
    \/ RecordAppend
    \/ MainCheck
    \/ MainHousekeeping
    \/ MainWake
    \/ SchedLoop
    \/ SchedWake
    \/ GenerateReportBegin
    \/ ReadAcquire
    \/ ReadScan
    \/ ReadReturn
    \/ ReportPrint
    \/ ReportUpdate
    \/ ReportRaise

WatermarkSpec == Init /\ [][WatermarkNext]_vars

(***************************************************************************)
(* MonitorManager (monitor_manager.py): the PID file and the watcher       *)
(* process it starts, stops and inspects.                                  *)
(***************************************************************************)
monitorVars == <<clock, jumped, last_report_time, start_time, storeVars,
                 schedVars, loopVars>>

StopPolls == 10

\* _get_running_pid: the integer in the PID file; None, here 0, when there
\* is no file or its text is no integer.  The callers test "if pid", so an
\* integer 0 counts as None as well.
GetRunningPid(file) == IF file = <<>> THEN 0 ELSE file[1]

\* _is_process_running: psutil.pid_exists(pid)
IsProcessRunning(pid) == pid \in alive

\* the PID file left where it is
RemovePidFileKept(file) == file
\* _remove_pid_file: the file is unlinked if it exists
RemovePidFile(file) == <<>>

\* _write_pid_file: the file holds str(pid); an IOError leaves it as it was
WritePidFile(file, pid, write_ok) == IF write_ok THEN <<pid>> ELSE file

\* start_monitor, up to its time.sleep(2).  script_exists, popen_ok and
\* write_ok are what the file system and subprocess.Popen answer.
StartMonitorCall ==
    /\ mg_pc = "idle"
    /\ mg_calls < MaxManagerCalls
    /\ mg_calls' = mg_calls + 1
    /\ mg_op' = "start"
    /\ mg_trace' = <<>>
    /\ mg_polls' = 0
    /\ \E script_exists \in BOOLEAN, popen_ok \in BOOLEAN, write_ok \in BOOLEAN :
         LET existing_pid == GetRunningPid(pid_file)
             stale == existing_pid # 0 /\ ~IsProcessRunning(existing_pid)
             healed == IF stale THEN RemovePidFile(pid_file) ELSE pid_file
             pid == mg_calls + 1
         IN  /\ mg_stale' = stale
             /\ IF existing_pid # 0 /\ IsProcessRunning(existing_pid)
                THEN /\ mg_result' = "False"
                     /\ UNCHANGED <<pid_file, alive, mg_pc, mg_pid>>
                ELSE IF ~script_exists
                THEN /\ pid_file' = healed
                     /\ mg_result' = "False"
                     /\ UNCHANGED <<alive, mg_pc, mg_pid>>
                ELSE IF ~popen_ok
                THEN /\ pid_file' = RemovePidFile(healed)
                     /\ mg_result' = "False"
                     /\ UNCHANGED <<alive, mg_pc, mg_pid>>
                ELSE /\ alive' = alive \cup {pid}
                     /\ pid_file' = WritePidFile(healed, pid, write_ok)
                     /\ mg_pid' = pid
                     /\ mg_pc' = "start_sleep"
                     /\ UNCHANGED mg_result
    /\ UNCHANGED <<monitorVars, os_name>>

\* start_monitor after time.sleep(2): the test of the new process
StartMonitorConfirm ==
    /\ mg_pc = "start_sleep"
    /\ IF IsProcessRunning(mg_pid)
       THEN /\ mg_result' = "True"
            /\ UNCHANGED pid_file
       ELSE /\ pid_file' = RemovePidFile(pid_file)
            /\ mg_result' = "False"
    /\ mg_pc' = "idle"
    /\ UNCHANGED <<monitorVars, os_name, alive, mg_op, mg_pid, mg_polls, mg_trace,
                   mg_stale, mg_calls>>

\* stop_monitor, up to the first time.sleep(1).  kill_ok is false when the
\* process has gone by the time os.kill is called, which then raises;
\* killed is whether taskkill /F has ended the process.
StopMonitorCall ==
    /\ mg_pc = "idle"
    /\ mg_calls < MaxManagerCalls
    /\ mg_calls' = mg_calls + 1
    /\ mg_op' = "stop"
    /\ mg_polls' = 0
    /\ \E kill_ok \in BOOLEAN, killed \in BOOLEAN :
         LET pid == GetRunningPid(pid_file)
         IN  /\ mg_stale' = (pid # 0 /\ ~IsProcessRunning(pid))
             /\ IF pid = 0
                THEN /\ mg_result' = "False"
                     /\ mg_trace' = <<>>
                     /\ UNCHANGED <<pid_file, alive, mg_pc, mg_pid>>
                ELSE IF ~IsProcessRunning(pid)
                THEN /\ pid_file' = RemovePidFile(pid_file)
                     /\ mg_result' = "False"
                     /\ mg_trace' = <<>>
                     /\ UNCHANGED <<alive, mg_pc, mg_pid>>
                ELSE IF os_name = "nt"
                THEN /\ mg_trace' = <<"forced">>
                     /\ alive' = IF killed THEN alive \ {pid} ELSE alive
                     /\ mg_pid' = pid
                     /\ mg_pc' = "stop_poll"
                     /\ UNCHANGED <<pid_file, mg_result>>
                ELSE IF kill_ok
                THEN /\ mg_trace' = <<"graceful">>
                     /\ mg_pid' = pid
                     /\ mg_pc' = "stop_poll"
                     /\ UNCHANGED <<pid_file, alive, mg_result>>
                ELSE /\ alive' = alive \ {pid}
                     /\ mg_trace' = <<>>
                     /\ mg_result' = "False"
                     /\ UNCHANGED <<pid_file, mg_pc, mg_pid>>
    /\ UNCHANGED <<monitorVars, os_name>>

\* one pass of "for _ in range(10)": time.sleep(1) and the test; after the
\* tenth pass the else branch, _remove_pid_file and return True
StopMonitorPoll ==
    /\ mg_pc = "stop_poll"
    /\ mg_polls' = mg_polls + 1
    /\ \E killed \in BOOLEAN :
         IF ~IsProcessRunning(mg_pid)
         THEN /\ mg_trace' = mg_trace \o <<"poll", "remove">>
              /\ pid_file' = RemovePidFile(pid_file)
              /\ mg_result' = "True"
              /\ mg_pc' = "idle"
              /\ UNCHANGED alive
         ELSE IF mg_polls + 1 < StopPolls
         THEN /\ mg_trace' = Append(mg_trace, "poll")
              /\ UNCHANGED <<pid_file, alive, mg_result, mg_pc>>
         ELSE /\ mg_trace' = mg_trace \o <<"poll", "forced", "remove">>
              /\ alive' = IF killed THEN alive \ {mg_pid} ELSE alive
              /\ pid_file' = RemovePidFile(pid_file)
              /\ mg_result' = "True"
              /\ mg_pc' = "idle"
    /\ UNCHANGED <<monitorVars, os_name, mg_op, mg_pid, mg_stale, mg_calls>>

\* check_status.  vanished is true when the process ends between
\* psutil.pid_exists and psutil.Process, which then raises NoSuchProcess.
CheckStatus ==
    /\ mg_pc = "idle"
    /\ mg_calls < MaxManagerCalls
    /\ mg_calls' = mg_calls + 1
    /\ mg_op' = "status"
    /\ mg_result' = "None"
    /\ mg_trace' = <<>>
    /\ \E vanished \in BOOLEAN :
         LET pid == GetRunningPid(pid_file)
         IN  /\ mg_stale' = (pid # 0 /\ ~IsProcessRunning(pid))
             /\ IF pid = 0
                THEN UNCHANGED <<pid_file, alive>>
                ELSE IF IsProcessRunning(pid)
                THEN IF vanished
                     THEN /\ alive' = alive \ {pid}
                          /\ pid_file' = RemovePidFile(pid_file)
                     ELSE UNCHANGED <<pid_file, alive>>
                ELSE /\ pid_file' = RemovePidFile(pid_file)
                     /\ UNCHANGED alive
    /\ UNCHANGED <<monitorVars, os_name, mg_pc, mg_pid, mg_polls>>

\* a watcher process ends: on its own, or on a termination request
WatcherExits ==
    /\ \E p \in alive : alive' = alive \ {p}
    /\ UNCHANGED <<monitorVars, os_name, pid_file, mg_pc, mg_op, mg_pid, mg_polls,
                   mg_result, mg_trace, mg_stale, mg_calls>>

\* the text of the PID file becomes unreadable as an integer
PidFileUnreadable ==
    /\ pid_file # <<>>
    /\ pid_file # <<0>>
    /\ pid_file' = <<0>>
    /\ UNCHANGED <<monitorVars, os_name, alive, mg_pc, mg_op, mg_pid, mg_polls,
                   mg_result, mg_trace, mg_stale, mg_calls>>

ManagerInit ==
    /\ clock = Combine(0, 9)
    /\ last_report_time = clock
    /\ start_time = clock
    /\ InitStore
    /\ InitSched
    /\ InitLoop
    /\ os_name \in {"nt", "posix"}
    /\ InitManagerState

(***************************************************************************)
(* ManagerSpec: start, stop and status commands, one at a time, on either  *)
(* operating system.                                                       *)
(***************************************************************************)
ManagerNext ==
    \/ StartMonitorCall
    \/ StartMonitorConfirm
    \/ StopMonitorCall
    \/ StopMonitorPoll
    \/ CheckStatus
    \/ WatcherExits
    \/ PidFileUnreadable

ManagerSpec == ManagerInit /\ [][ManagerNext]_vars

(***************************************************************************)
(* Properties of the scheduler.                                            *)
(***************************************************************************)
\* the instants that fall on one of the four report hours
TriggerHours == {6, 10, 14, 17}
TriggerInstants ==
    {d * SecondsPerDay + h * SecondsPerHour : d \in 0..(MaxSchedDay + 1), h \in TriggerHours}

\* C2: when the scheduler is still running a full day after a trigger
\* instant passed under it, a report has been generated since that trigger.
EveryTriggerReported ==
    \A T \in TriggerInstants :
        (running /\ sc_pc = "sleep" /\ start_time < T /\ sc_now >= T + SecondsPerDay)
            => \E i \in 1..Len(reports) : reports[i].at >= T

NextReportTimeEarliestLater ==
    sc_checked =>
        /\ sc_next_report > sc_now
        /\ sc_next_report \in TriggerInstants
        /\ \A T \in TriggerInstants : T > sc_now => sc_next_report <= T

\* C5 witness: computed late in the 17:00 hour, the result is 06:00 of the
\* next day.
NextReportTimeWitness ==
    /\ sc_checked
    /\ HourOf(sc_now) = 17
    /\ sc_now % SecondsPerHour = 3599
    /\ sc_next_report = (DateOf(sc_now) + 1) * SecondsPerDay + 6 * SecondsPerHour

\* the report hour that follows hour h of the day, and the days it adds
FollowingTrigger(h) ==
    CASE h = 6 -> <<0, 10>> [] h = 10 -> <<0, 14>> [] h = 14 -> <<0, 17>>
      [] h = 17 -> <<1, 6>>

\* C6: computed exactly on a report hour, the next report time is the
\* following report hour (06:00 of the next day after 17:00:00), and a
\* scheduler started exactly on a report hour has no report for that instant.
OnTriggerHourNextIsFollowing ==
    /\ (sc_checked /\ sc_now \in TriggerInstants) =>
           LET f == FollowingTrigger(HourOf(sc_now))
           IN  sc_next_report =
                   (DateOf(sc_now) + f[1]) * SecondsPerDay + f[2] * SecondsPerHour
    /\ start_time \in TriggerInstants =>
           \A i \in 1..Len(reports) :
               reports[i].trigger # start_time /\ reports[i].at # start_time

\* C6 witness: started at exactly 17:00:00, the first pass waits for 06:00
\* of the next day and no report has been generated.
OnTriggerHourWitness ==
    /\ sc_checked
    /\ start_time = 17 * SecondsPerHour
    /\ sc_now = start_time
    /\ sc_pc = "sleep"
    /\ sc_next_report = SecondsPerDay + 6 * SecondsPerHour
    /\ reports = <<>>

(***************************************************************************)
(* Properties of the watermark and of the frame of the store.              *)
(***************************************************************************)
\* C19: on a clock that is never set backward, a finishing report prints no
\* record that an earlier report printed.
NoRecordReportedTwice ==
    [][(rp_pc = "update" /\ rp_pc' = "idle" /\ ~jumped)
          => IdsOf(rp_changes) \cap reported = {}]_vars

\* the records of a store are each in one bucket, the bucket of their date
RecordsInBucketOfTheirDate ==
    /\ \A i, j \in 1..Len(changes) : i # j => changes[i].date_key # changes[j].date_key
    /\ \A i \in 1..Len(changes) :
           /\ changes[i].recs # <<>>
           /\ \A k \in 1..Len(changes[i].recs) :
                  /\ DateOf(changes[i].recs[k].timestamp) = changes[i].date_key
                  /\ \A j \in 1..Len(changes) : \A m \in 1..Len(changes[j].recs) :
                         changes[j].recs[m].id = changes[i].recs[k].id
                             => (j = i /\ m = k)

\* a step that adds one record at the end of one bucket and changes no other
OneRecordAppended ==
    \E r \in StoredRecords(changes') \ StoredRecords(changes) :
        /\ StoredRecords(changes') = StoredRecords(changes) \cup {r}
        /\ Len(changes') >= Len(changes)
        /\ \A i \in 1..Len(changes) :
               /\ changes'[i].date_key = changes[i].date_key
               /\ SubSeq(changes'[i].recs, 1, Len(changes[i].recs)) = changes[i].recs
        /\ \E i \in 1..Len(changes') : changes'[i].recs[Len(changes'[i].recs)] = r

\* a step that removes whole buckets and touches no other
OnlyWholeBucketsRemoved ==
    /\ \A i \in 1..Len(changes') : \E j \in 1..Len(changes) : changes'[i] = changes[j]
    /\ \A i, k \in 1..Len(changes') :
           i < k => \E j, m \in 1..Len(changes) :
                        j < m /\ changes'[i] = changes[j] /\ changes'[k] = changes[m]

\* C17: every record sits in exactly one bucket, that of the date of its
\* timestamp; _record_change adds exactly one record at the end of one
\* bucket; the read and _generate_report leave the store as it is;
\* clear_old_changes removes whole buckets only; nothing else changes it.
StoreAppendOnlyExceptTrim ==
    /\ []RecordsInBucketOfTheirDate
    /\ [][/\ (cb_pc = "locked" /\ cb_pc' = "idle") => OneRecordAppended
          /\ (mn_pc = "locked" /\ mn_pc' = "idle") => OnlyWholeBucketsRemoved
          /\ (rp_pc' # rp_pc \/ rp_i' # rp_i) => changes' = changes
          /\ changes' # changes =>
                 \/ cb_pc = "locked" /\ cb_pc' = "idle"
                 \/ mn_pc = "locked" /\ mn_pc' = "idle"]_vars

\* C17 witness: two records were stored on two dates, a reader is between
\* its read and its print, and a trim has removed one of the two buckets.
StoreFrameWitness ==
    /\ nrecorded = 2
    /\ Len(changes) = 1
    /\ Len(changes[1].recs) = 1
    /\ trim_clean # <<>>
    /\ rp_pc = "print"
    /\ Len(rp_changes) = 2

\* C18: last_report_time is the start time until a report generation has
\* finished; it changes only in the last step of _generate_report, to the
\* current_time that call read; a generation that raises leaves it as it
\* was; and while the clock is never set backward it does not decrease.
WatermarkOnlySetByReport ==
    /\ [](~finished => last_report_time = start_time)
    /\ [][/\ last_report_time' # last_report_time =>
                 \/ /\ rp_pc = "update" /\ rp_pc' = "idle"
                    /\ last_report_time' = rp_current_time
                 \/ /\ sc_pc = "loop" /\ sc_pc' = "sleep"
                    /\ reports' # reports
                    /\ last_report_time' = clock
          /\ rp_pc' = "raised" => last_report_time' = last_report_time
          /\ ~jumped' => last_report_time' >= last_report_time]_vars

\* C18 witness: after a finished report moved the watermark, a later report
\* generation has raised, on a clock never set backward.
WatermarkWitness ==
    /\ rp_pc = "raised"
    /\ nrecorded > 0
    /\ ml_pc = "sleep"
    /\ sc_pc = "sleep"
    /\ finished
    /\ last_report_time > start_time
    /\ clock > last_report_time
    /\ ~jumped

\* C11: in a state where the monitored root does not exist, no step calls
\* _record_change and no step puts a new ChangeRecord into the store.
NoRecordWhileRootAbsent ==
    [][~path_exists =>
           /\ ~(cb_pc # "locked" /\ cb_pc' = "locked")
           /\ StoredRecords(changes') \subseteq StoredRecords(changes)]_vars

\* C12: once _main_loop has found the monitored root absent, it performs no
\* retention trim for as long as the root stays absent.
NoTrimWhileRootAbsent ==
    [][(ml_pc = "housekeeping" /\ ml_pc' = "sleep") => ~absent_seen]_vars

\* C13: when the scheduler thread or the main loop has ended, by an
\* exception or otherwise, running is false and the observer is stopped.
RaisedLoopStopsMonitoring ==
    (sc_pc = "dead" \/ ml_pc = "returned") => (~running /\ observer = "stopped")

\* C14: a call of start() made while the monitored path does not exist, or
\* while the monitor is running, returns False and changes nothing: not
\* running, the observer, the scheduler thread, the main thread's position,
\* the store, the watermark.
StartRefusedWithoutEffect ==
    [][(Len(st_calls') = Len(st_calls) + 1 /\ (~path_exists \/ running)) =>
           /\ st_calls'[Len(st_calls')] = "False"
           /\ UNCHANGED <<running, observer, sc_pc, sc_wake, ml_pc, ml_wake,
                          changes, last_report_time, storeVars>>]_vars

\* C14 witness: start() was refused while the path was absent, accepted once
\* the path was there, and refused again while the monitor was running.
StartRefusedWitness ==
    /\ st_calls = <<"False", "started", "False">>
    /\ running
    /\ path_exists
    /\ observer = "started"
    /\ sc_pc = "sleep"
    /\ ml_pc = "sleep"

\* C15: a stop_monitor that finds the watcher running first requests a
\* graceful termination, then polls, sends the forced termination only
\* after ten polls that found the process running, and removes the PID file
\* last; and when it returns True the PID file is absent and the watcher is
\* not running.
StopGracefulThenForced ==
    /\ [](mg_trace # <<>> =>
            /\ mg_trace[1] = "graceful"
            /\ \A i \in 2..Len(mg_trace) :
                   /\ mg_trace[i] # "graceful"
                   /\ mg_trace[i] = "forced" =>
                          /\ i = StopPolls + 2
                          /\ \A j \in 2..(i - 1) : mg_trace[j] = "poll"
                   /\ mg_trace[i] = "remove" => i = Len(mg_trace))
    /\ [][(mg_pc = "stop_poll" /\ mg_pc' = "idle" /\ mg_result' = "True") =>
              (pid_file' = <<>> /\ mg_pid \notin alive')]_vars

SingleInstance ==
    mg_pc = "idle" =>
        /\ Cardinality(alive) <= 1
        /\ \A p \in alive : pid_file = <<p>>

\* C21: a modified notification for a directory leaves the store and the
\* handler as they are; every other notification makes the handler call
\* _record_change, which adds exactly one record of the notification's
\* kind and is_directory, with path the source, or for moved the
\* destination with the source as old_path; and a stored record has an
\* old_path exactly when it is a moved record.
EventsClassified ==
    /\ [](\A r \in StoredRecords(changes) :
              /\ r.event_type \in EventKinds
              /\ (r.old_path # None) <=> (r.event_type = "moved"))
    /\ [][/\ (cb_pc = "idle" /\ cb_event' # cb_event) =>
                 IF cb_event'.kind = "modified" /\ cb_event'.is_directory
                 THEN cb_pc' = "idle" /\ changes' = changes /\ nrecorded' = nrecorded
                 ELSE cb_pc' = "locked"
          /\ (cb_pc = "locked" /\ cb_pc' = "idle") =>
                 /\ ~(cb_event.kind = "modified" /\ cb_event.is_directory)
                 /\ \E r \in StoredRecords(changes') \ StoredRecords(changes) :
                        /\ StoredRecords(changes') = StoredRecords(changes) \cup {r}
                        /\ r.event_type = cb_event.kind
                        /\ r.is_directory = cb_event.is_directory
                        /\ r.path = IF cb_event.kind = "moved"
                                    THEN cb_event.dest_path ELSE cb_event.src_path
                        /\ r.old_path = IF cb_event.kind = "moved"
                                        THEN cb_event.src_path ELSE None]_vars

\* C21 witness: a moved directory and a modified file have been recorded,
\* and the last notification, modified for a directory, added nothing.
EventsClassifiedWitness ==
    /\ cb_event = Notification("modified", TRUE)
    /\ cb_pc = "idle"
    /\ nrecorded = 2
    /\ Cardinality(StoredRecords(changes)) = 2
    /\ \E r \in StoredRecords(changes) :
           r.event_type = "moved" /\ r.is_directory /\ r.path = "/a/d" /\ r.old_path = "/a/c"
    /\ \E r \in StoredRecords(changes) :
           r.event_type = "modified" /\ ~r.is_directory /\ r.old_path = None

\* C22: once running is false, the main loop returns the next time it tests
\* the flag, in the outer loop or in the reconnect sub-loop, and the
\* scheduler loop ends the next time it tests the flag, without generating
\* a report.
LoopsEndAtNextFlagTest ==
    [][~running =>
           /\ (ml_pc \in {"check", "reconnect"} /\ ml_pc' # ml_pc) => ml_pc' = "returned"
           /\ (sc_pc = "loop" /\ sc_pc' # sc_pc) =>
                  (sc_pc' = "done" /\ reports' = reports
                     /\ last_report_time' = last_report_time)]_vars

====
